---- MODULE Spec2Model ----
(***************************************************************************)
(* Model of map_keyed (leptos_core/src/map.rs): the keyed-list reconciler. *)
(* One run of the effect closure is one action (it runs to completion on   *)
(* a single thread); its loops are recursive operators over a record of    *)
(* the closure's state and locals.  What a run did, in order, is kept in   *)
(* events, the state it started from in pre, its locals in loc, until the  *)
(* closure has returned.  Queued microtasks run between effect runs.       *)
(* Vec indices are 0-based as in the source (At / Put translate).          *)
(*                                                                         *)
(* The error boundary (tachys/src/view/error_boundary.rs) is a second      *)
(* state machine over its own variables (SpecTry): the TryState, the       *)
(* child list of the parent element it is mounted in, and a record of the  *)
(* last operation.  Its child is a Result<T, E> view.                      *)
(***************************************************************************)
EXTENDS Integers, Sequences, FiniteSets, TLC

\* ---- bounds of the model ----
NumKeys == 3
NumVals == 2
MaxLen == 3
MaxScopes == 3
MaxQueue == 2
NumViews == 2
NumErrors == 2

Keys == 1..NumKeys
Vals == 1..NumVals
\* an input element T: a key and a payload; T: PartialEq compares both.
\* Only the first key's payload varies: that is enough for an element to
\* change value under its key and for two different elements to share a key.
Items == {it \in Keys \X Vals : it[1] = 1 \/ it[2] = 1}
ScopeIds == 1..MaxScopes

RECURSIVE SeqsUpTo(_, _)
SeqsUpTo(S, n) ==
    IF n = 0 THEN {<<>>}
    ELSE LET shorter == SeqsUpTo(S, n - 1)
         IN  shorter \cup {Append(s, x) : s \in {t \in shorter : Len(t) = n - 1}, x \in S}

\* the values list() can return
Snapshots == SeqsUpTo(Items, MaxLen)

\* ---- Option<T> ----
None == <<>>
Some(x) == <<x>>
IsSome(o) == o # None
Unwrap(o) == o[1]

\* ---- 0-based Vec access ----
At(v, i) == v[i + 1]
Put(v, i, x) == [v EXCEPT ![i + 1] = x]
Truncate(v, n) == IF Len(v) > n THEN SubSeq(v, 1, n) ELSE v
Min(a, b) == IF a < b THEN a ELSE b

\* ---- the user closures ----
key_fn(item) == item[1]
\* the mapped element remembers the scope it was built in and the element
\* it was built from (its identity)
map_fn(cx, item) == [scope |-> cx, src |-> item]

VARIABLES
    items,        \* the effect's previous return value (previous input)
    mapped,       \* Rc<RefCell<Vec<U>>>
    disposers,    \* Vec<Option<ScopeDisposer>>
    item_signal,  \* the published output
    microtasks,   \* queue_microtask: FIFO of captured disposer vectors
    nextScope,    \* number of child scopes created so far
    disposed,     \* per scope: number of dispose() calls
    panicked,     \* an unwrap() or an index failed
    path,         \* branch taken by the last run of the effect
    events,       \* what the last run did, in order
    loc,          \* locals of the last run (moves: the (i, j) of the match pass,
                  \* calls: the elements map_fn was invoked on)
    pre,          \* state at entry of the last run
    map_calls,    \* per key: map_fn invocations since the key last entered the input
    inner,        \* TryState.inner: the TryStateState
    parent,       \* child nodes of the parent element, in order (marker included)
    try_panic,    \* "none", or what panicked: an expect() or Rndr::mount_before
    last,         \* the last operation on the TryState and what it did
    outer         \* tag of the TryState of a boundary enclosing this Try

mapVars == <<items, mapped, disposers, item_signal, microtasks, nextScope,
             disposed, panicked, path, events, loc, pre, map_calls>>
tryVars == <<inner, parent, try_panic, last, outer>>
vars == <<mapVars, tryVars>>

\* an observable step of a run: child_scope, dispose, queue_microtask,
\* set_item_signal
Ev(op, s) == [op |-> op, scope |-> s]

NoLoc == [start |-> 0, end |-> 0, new_end |-> 0, temp |-> <<>>,
          temp_disposers |-> <<>>, new_indices |-> [k \in Keys |-> None],
          new_indices_next |-> <<>>, new_items |-> <<>>, cut |-> <<>>,
          moves |-> <<>>, calls |-> <<>>]

Snap == [items |-> items, mapped |-> mapped, disposers |-> disposers,
         item_signal |-> item_signal, microtasks |-> microtasks,
         nextScope |-> nextScope, disposed |-> disposed]

NoPre == [items |-> <<>>, mapped |-> <<>>, disposers |-> <<>>,
          item_signal |-> <<>>, microtasks |-> <<>>, nextScope |-> 0,
          disposed |-> [s \in ScopeIds |-> 0]]

\* ---- error boundary: values ----
Views == 1..NumViews
Errors == 1..NumErrors
\* std Result / crate::error::Result
Ok(v) == [ok |-> TRUE, val |-> v]
Err(e) == [ok |-> FALSE, val |-> e]
\* the values of a child of type Result<T, E>
Results == {Ok(v) : v \in Views} \cup {Err(e) : e \in Errors}
AnyError(e) == <<"AnyError", e>>

\* TryStateState; before Try::build there is no state
Unbuilt == [tag |-> "Unbuilt", children |-> None, fallback |-> None]
Success(c) == [tag |-> "Success", children |-> c, fallback |-> None]
InitialFail(f) == [tag |-> "InitialFail", children |-> None, fallback |-> Some(f)]
SubsequentFail(c, f) == [tag |-> "SubsequentFail", children |-> c, fallback |-> Some(f)]

NoLast == [op |-> "none", child |-> None, from |-> Unbuilt, parent |-> <<>>,
           dom_ops |-> <<>>, ret |-> None]

Init ==
    /\ inner = Unbuilt
    /\ parent = <<>>
    /\ try_panic = "none"
    /\ last = NoLast
    /\ outer = "Unbuilt"
    /\ items = <<>>
    /\ mapped = <<>>
    /\ disposers = <<>>
    /\ item_signal = <<>>
    /\ microtasks = <<>>
    /\ nextScope = 0
    /\ disposed = [s \in ScopeIds |-> 0]
    /\ panicked = FALSE
    /\ path = "none"
    /\ events = <<>>
    /\ loc = NoLoc
    /\ pre = NoPre
    /\ map_calls = [k \in Keys |-> 0]

\* ---- dispose() on every disposer of a vector, in order ----
RECURSIVE DisposeAll(_, _, _)
DisposeAll(ds, i, st) ==
    IF st.panicked \/ i >= Len(ds) THEN st
    ELSE IF ~IsSome(At(ds, i))
         THEN [st EXCEPT !.panicked = TRUE]
         ELSE DisposeAll(ds, i + 1,
                [st EXCEPT !.disposed[Unwrap(At(ds, i))] = @ + 1])

\* ---- fast path: create every item ----
RECURSIVE CreateLoop(_, _, _)
CreateLoop(ni, n, st) ==
    IF n >= Len(ni) THEN st
    ELSE LET cx == st.nextScope + 1
         IN  CreateLoop(ni, n + 1,
                [st EXCEPT !.nextScope = cx,
                           !.events = Append(@, Ev("create", cx)),
                           !.calls = Append(@, At(ni, n)),
                           !.mapped = Append(@, map_fn(cx, At(ni, n))),
                           !.disposers = Append(@, Some(cx))])

\* ---- general case ----
\* position(|(a, b)| a != b).unwrap_or(min_len)
RECURSIVE Position(_, _, _)
Position(old, ni, i) ==
    IF i >= Min(Len(old), Len(ni)) THEN Min(Len(old), Len(ni))
    ELSE IF At(old, i) # At(ni, i) THEN i
         ELSE Position(old, ni, i + 1)

\* skip common suffix, carrying the matched pairs into the staging arrays
RECURSIVE SuffixLoop(_, _, _)
SuffixLoop(old, ni, st) ==
    IF st.end > st.start /\ st.new_end > st.start
       /\ At(old, st.end - 1) = At(ni, st.new_end - 1)
    THEN LET e == st.end - 1
             ne == st.new_end - 1
         IN  SuffixLoop(old, ni,
                [st EXCEPT !.end = e,
                           !.new_end = ne,
                           !.temp = Put(@, ne, Some(At(st.mapped, e))),
                           !.temp_disposers = Put(@, ne, At(st.disposers, e)),
                           !.disposers = Put(@, e, None)])
    ELSE st

\* 0) map of indices in new_items, scanned backwards; j runs new_end-1 .. start
RECURSIVE IndexLoop(_, _, _)
IndexLoop(ni, j, st) ==
    IF j < st.start THEN st
    ELSE LET k == key_fn(At(ni, j))
             i == st.new_indices[k]
         IN  IndexLoop(ni, j - 1,
                [st EXCEPT !.new_indices_next = Put(@, j - st.start, i),
                           !.new_indices[k] = Some(j)])

\* MatchStep with the i/j slip: the disposer is taken from slot j, not slot i
MatchStep_TakeAtJ(old, i, st) ==
    LET k == key_fn(At(old, i))
        found == st.new_indices[k]
    IN  IF IsSome(found)
        THEN LET j == Unwrap(found)
                 nxt == At(st.new_indices_next, j - st.start)
                 from == IF j < Len(st.disposers) THEN j ELSE i
             IN  [st EXCEPT !.moves = Append(@, <<i, j>>),
                            !.temp = Put(@, j, Some(At(st.mapped, i))),
                            !.temp_disposers = Put(@, j, At(st.disposers, from)),
                            !.disposers = Put(@, from, None),
                            !.new_indices[k] = IF IsSome(nxt) THEN nxt ELSE @]
        ELSE IF IsSome(At(st.disposers, i))
             THEN [st EXCEPT !.disposed[Unwrap(At(st.disposers, i))] = @ + 1,
                             !.events = Append(@, Ev("dispose", Unwrap(At(st.disposers, i)))),
                             !.disposers = Put(@, i, None)]
             ELSE [st EXCEPT !.panicked = TRUE]

\* MatchStep that also disposes the scope it moves
MatchStep_DisposeMoved(old, i, st) ==
    LET k == key_fn(At(old, i))
        found == st.new_indices[k]
        d == At(st.disposers, i)
    IN  IF ~IsSome(d) THEN [st EXCEPT !.panicked = TRUE]
        ELSE IF IsSome(found)
        THEN LET j == Unwrap(found)
                 nxt == At(st.new_indices_next, j - st.start)
             IN  [st EXCEPT !.moves = Append(@, <<i, j>>),
                            !.temp = Put(@, j, Some(At(st.mapped, i))),
                            !.temp_disposers = Put(@, j, d),
                            !.disposers = Put(@, i, None),
                            !.disposed[Unwrap(d)] = @ + 1,
                            !.events = Append(@, Ev("dispose", Unwrap(d))),
                            !.new_indices[k] = IF IsSome(nxt) THEN nxt ELSE @]
        ELSE [st EXCEPT !.disposed[Unwrap(d)] = @ + 1,
                        !.events = Append(@, Ev("dispose", Unwrap(d))),
                        !.disposers = Put(@, i, None)]

\* MatchStep that drops the scope of a removed key without disposing it
MatchStep_NoDispose(old, i, st) ==
    LET k == key_fn(At(old, i))
        found == st.new_indices[k]
    IN  IF IsSome(found)
        THEN LET j == Unwrap(found)
                 nxt == At(st.new_indices_next, j - st.start)
             IN  [st EXCEPT !.moves = Append(@, <<i, j>>),
                            !.temp = Put(@, j, Some(At(st.mapped, i))),
                            !.temp_disposers = Put(@, j, At(st.disposers, i)),
                            !.disposers = Put(@, i, None),
                            !.new_indices[k] = IF IsSome(nxt) THEN nxt ELSE @]
        ELSE [st EXCEPT !.disposers = Put(@, i, None)]

\* MatchStep that queues the disposal of a removed key as the bulk path does
MatchStep_Deferred(old, i, st) ==
    LET k == key_fn(At(old, i))
        found == st.new_indices[k]
    IN  IF IsSome(found)
        THEN LET j == Unwrap(found)
                 nxt == At(st.new_indices_next, j - st.start)
             IN  [st EXCEPT !.moves = Append(@, <<i, j>>),
                            !.temp = Put(@, j, Some(At(st.mapped, i))),
                            !.temp_disposers = Put(@, j, At(st.disposers, i)),
                            !.disposers = Put(@, i, None),
                            !.new_indices[k] = IF IsSome(nxt) THEN nxt ELSE @]
        ELSE [st EXCEPT !.microtasks = Append(@, <<At(st.disposers, i)>>),
                        !.events = Append(@, Ev("queue", 0)),
                        !.disposers = Put(@, i, None)]

\* MatchStep that copies the disposer of a moved item and leaves the old slot filled
MatchStep_NoTake(old, i, st) ==
    LET k == key_fn(At(old, i))
        found == st.new_indices[k]
    IN  IF IsSome(found)
        THEN LET j == Unwrap(found)
                 nxt == At(st.new_indices_next, j - st.start)
             IN  [st EXCEPT !.moves = Append(@, <<i, j>>),
                            !.temp = Put(@, j, Some(At(st.mapped, i))),
                            !.temp_disposers = Put(@, j, At(st.disposers, i)),
                            !.new_indices[k] = IF IsSome(nxt) THEN nxt ELSE @]
        ELSE IF IsSome(At(st.disposers, i))
             THEN [st EXCEPT !.disposed[Unwrap(At(st.disposers, i))] = @ + 1,
                             !.events = Append(@, Ev("dispose", Unwrap(At(st.disposers, i)))),
                             !.disposers = Put(@, i, None)]
             ELSE [st EXCEPT !.panicked = TRUE]

\* MatchStep that never advances the key's index to its next candidate
MatchStep_NoAdvance(old, i, st) ==
    LET k == key_fn(At(old, i))
        found == st.new_indices[k]
    IN  IF IsSome(found)
        THEN LET j == Unwrap(found)
             IN  [st EXCEPT !.moves = Append(@, <<i, j>>),
                            !.temp = Put(@, j, Some(At(st.mapped, i))),
                            !.temp_disposers = Put(@, j, At(st.disposers, i)),
                            !.disposers = Put(@, i, None)]
        ELSE IF IsSome(At(st.disposers, i))
             THEN [st EXCEPT !.disposed[Unwrap(At(st.disposers, i))] = @ + 1,
                             !.events = Append(@, Ev("dispose", Unwrap(At(st.disposers, i)))),
                             !.disposers = Put(@, i, None)]
             ELSE [st EXCEPT !.panicked = TRUE]

\* MatchStep that reuses an old element only if the new range holds an equal one
MatchStep_ByValue(old, i, st) ==
    LET k == key_fn(At(old, i))
        found == IF \E j \in st.start..(st.new_end - 1) : At(st.new_items, j) = At(old, i)
                 THEN st.new_indices[k] ELSE None
    IN  IF IsSome(found)
        THEN LET j == Unwrap(found)
                 nxt == At(st.new_indices_next, j - st.start)
             IN  [st EXCEPT !.moves = Append(@, <<i, j>>),
                            !.temp = Put(@, j, Some(At(st.mapped, i))),
                            !.temp_disposers = Put(@, j, At(st.disposers, i)),
                            !.disposers = Put(@, i, None),
                            !.new_indices[k] = IF IsSome(nxt) THEN nxt ELSE @]
        ELSE IF IsSome(At(st.disposers, i))
             THEN [st EXCEPT !.disposed[Unwrap(At(st.disposers, i))] = @ + 1,
                             !.events = Append(@, Ev("dispose", Unwrap(At(st.disposers, i)))),
                             !.disposers = Put(@, i, None)]
             ELSE [st EXCEPT !.panicked = TRUE]

\* 1) step through the old items: move the found ones, dispose the others
MatchStep(old, i, st) ==
    LET k == key_fn(At(old, i))
        found == st.new_indices[k]
    IN  IF IsSome(found)
        THEN LET j == Unwrap(found)
                 nxt == At(st.new_indices_next, j - st.start)
             IN  [st EXCEPT !.moves = Append(@, <<i, j>>),
                            !.temp = Put(@, j, Some(At(st.mapped, i))),
                            !.temp_disposers = Put(@, j, At(st.disposers, i)),
                            !.disposers = Put(@, i, None),
                            !.new_indices[k] = IF IsSome(nxt) THEN nxt ELSE @]
        ELSE IF IsSome(At(st.disposers, i))
             THEN [st EXCEPT !.disposed[Unwrap(At(st.disposers, i))] = @ + 1,
                             !.events = Append(@, Ev("dispose", Unwrap(At(st.disposers, i)))),
                             !.disposers = Put(@, i, None)]
             ELSE [st EXCEPT !.panicked = TRUE]

RECURSIVE MatchLoop(_, _, _)
MatchLoop(old, i, st) ==
    IF st.panicked \/ i >= st.end THEN st
    ELSE MatchLoop(old, i + 1, MatchStep(old, i, st))

\* FillStep that builds every new element from the first element of the range
FillStep_FirstItem(ni, j, st) ==
    IF j < Len(st.temp) /\ IsSome(At(st.temp, j))
    THEN IF j >= Len(st.mapped)
         THEN [st EXCEPT !.mapped = Append(@, Unwrap(At(st.temp, j))),
                         !.disposers = Append(@, At(st.temp_disposers, j)),
                         !.temp_disposers = Put(@, j, None)]
         ELSE [st EXCEPT !.mapped = Put(@, j, Unwrap(At(st.temp, j))),
                         !.disposers = Put(@, j, At(st.temp_disposers, j)),
                         !.temp_disposers = Put(@, j, None)]
    ELSE LET cx == st.nextScope + 1
             tmp == map_fn(cx, At(ni, st.start))
         IN  IF Len(st.mapped) > j
             THEN [st EXCEPT !.nextScope = cx,
                             !.events = Append(@, Ev("create", cx)),
                             !.calls = Append(@, At(ni, st.start)),
                             !.mapped = Put(@, j, tmp),
                             !.disposers = Put(@, j, Some(cx))]
             ELSE [st EXCEPT !.nextScope = cx,
                             !.events = Append(@, Ev("create", cx)),
                             !.calls = Append(@, At(ni, st.start)),
                             !.mapped = Append(@, tmp),
                             !.disposers = Append(@, Some(cx))]

\* 2) set all the new values: pull from the moved array or create
FillStep(ni, j, st) ==
    IF j < Len(st.temp) /\ IsSome(At(st.temp, j))
    THEN IF j >= Len(st.mapped)
         THEN [st EXCEPT !.mapped = Append(@, Unwrap(At(st.temp, j))),
                         !.disposers = Append(@, At(st.temp_disposers, j)),
                         !.temp_disposers = Put(@, j, None)]
         ELSE IF j >= Len(st.disposers)
              THEN [st EXCEPT !.panicked = TRUE]
              ELSE [st EXCEPT !.mapped = Put(@, j, Unwrap(At(st.temp, j))),
                              !.disposers = Put(@, j, At(st.temp_disposers, j)),
                              !.temp_disposers = Put(@, j, None)]
    ELSE LET cx == st.nextScope + 1
             tmp == map_fn(cx, At(ni, j))
         IN  IF Len(st.mapped) > j
             THEN IF j >= Len(st.disposers)
                  THEN [st EXCEPT !.panicked = TRUE, !.nextScope = cx,
                                  !.events = Append(@, Ev("create", cx)),
                                  !.calls = Append(@, At(ni, j))]
                  ELSE [st EXCEPT !.nextScope = cx,
                                  !.events = Append(@, Ev("create", cx)),
                                  !.calls = Append(@, At(ni, j)),
                                  !.mapped = Put(@, j, tmp),
                                  !.disposers = Put(@, j, Some(cx))]
             ELSE [st EXCEPT !.nextScope = cx,
                             !.events = Append(@, Ev("create", cx)),
                             !.calls = Append(@, At(ni, j)),
                             !.mapped = Append(@, tmp),
                             !.disposers = Append(@, Some(cx))]

RECURSIVE FillLoop(_, _, _)
FillLoop(ni, j, st) ==
    IF st.panicked \/ j >= Len(ni) THEN st
    ELSE FillLoop(ni, j + 1, FillStep(ni, j, st))

\* IndexLoop that stops one short: the first element of the range is not indexed
RECURSIVE IndexLoop_SkipFirst(_, _, _)
IndexLoop_SkipFirst(ni, j, st) ==
    IF j <= st.start THEN st
    ELSE LET k == key_fn(At(ni, j))
             i == st.new_indices[k]
         IN  IndexLoop_SkipFirst(ni, j - 1,
                [st EXCEPT !.new_indices_next = Put(@, j - st.start, i),
                           !.new_indices[k] = Some(j)])

\* Prepare using the short index loop
Prepare_SkipFirst(old, ni, st) ==
    LET st0 == [st EXCEPT !.start = Position(old, ni, 0),
                          !.end = Len(old),
                          !.new_end = Len(ni),
                          !.temp = [n \in 1..Len(ni) |-> None],
                          !.temp_disposers = [n \in 1..Len(ni) |-> None]]
        st1 == SuffixLoop(old, ni, st0)
        st2 == [st1 EXCEPT !.new_indices_next =
                               [n \in 1..(st1.new_end - st1.start) |-> None]]
    IN  IndexLoop_SkipFirst(ni, st2.new_end - 1, st2)

\* Prepare whose index map is built over the old items instead of the new ones
Prepare_IndexOld(old, ni, st) ==
    LET st0 == [st EXCEPT !.start = Position(old, ni, 0),
                          !.end = Len(old),
                          !.new_end = Len(ni),
                          !.temp = [n \in 1..Len(ni) |-> None],
                          !.temp_disposers = [n \in 1..Len(ni) |-> None]]
        st1 == SuffixLoop(old, ni, st0)
    IN  [st1 EXCEPT !.new_indices_next =
                        [n \in 1..(st1.new_end - st1.start) |-> None],
                    !.new_indices =
                        [k \in Keys |->
                            IF \E i \in st1.start..(Min(st1.end, st1.new_end) - 1) :
                                   key_fn(At(old, i)) = k
                            THEN Some(CHOOSE i \in st1.start..(Min(st1.end, st1.new_end) - 1) :
                                          key_fn(At(old, i)) = k)
                            ELSE None]]

\* Prepare without the prefix skip: the passes start at index 0
Prepare_NoPrefixSkip(old, ni, st) ==
    LET st0 == [st EXCEPT !.start = 0,
                          !.end = Len(old),
                          !.new_end = Len(ni),
                          !.temp = [n \in 1..Len(ni) |-> None],
                          !.temp_disposers = [n \in 1..Len(ni) |-> None]]
        st1 == SuffixLoop(old, ni, st0)
        st2 == [st1 EXCEPT !.new_indices_next =
                               [n \in 1..(st1.new_end - st1.start) |-> None]]
    IN  IndexLoop(ni, st2.new_end - 1, st2)

\* the staging arrays, start/end/new_end and the index maps of one run
Prepare(old, ni, st) ==
    LET st0 == [st EXCEPT !.start = Position(old, ni, 0),
                          !.end = Len(old),
                          !.new_end = Len(ni),
                          !.temp = [n \in 1..Len(ni) |-> None],
                          !.temp_disposers = [n \in 1..Len(ni) |-> None]]
        st1 == SuffixLoop(old, ni, st0)
        st2 == [st1 EXCEPT !.new_indices_next =
                               [n \in 1..(st1.new_end - st1.start) |-> None]]
    IN  IndexLoop(ni, st2.new_end - 1, st2)

\* the whole else-branch of the effect
General(old, ni, st) ==
    LET st1 == Prepare(old, ni, st)
        st2 == MatchLoop(old, st1.start, st1)
    IN  FillLoop(ni, st2.start, st2)

\* the closure's captured state and its locals at entry of a run
Entry(ni) ==
    [mapped |-> mapped, disposers |-> disposers, microtasks |-> microtasks,
     nextScope |-> nextScope, disposed |-> disposed, events |-> <<>>,
     panicked |-> FALSE, start |-> 0, end |-> 0, new_end |-> 0,
     temp |-> <<>>, temp_disposers |-> <<>>,
     new_indices |-> [k \in Keys |-> None], new_indices_next |-> <<>>,
     new_items |-> ni, cut |-> <<>>, moves |-> <<>>, calls |-> <<>>,
     item_signal |-> item_signal]

\* Finish without step 3: the arrays keep their old length
Finish_NoTruncate(ni, st) ==
    IF st.panicked THEN st
    ELSE [st EXCEPT !.item_signal = st.mapped,
                    !.events = Append(@, Ev("publish", 0))]

\* Finish that updates the signal before step 3 has cut the arrays
Finish_PublishFirst(ni, st) ==
    IF st.panicked THEN st
    ELSE [st EXCEPT !.item_signal = st.mapped,
                    !.mapped = Truncate(@, Len(ni)),
                    !.disposers = Truncate(@, Len(ni)),
                    !.events = Append(@, Ev("publish", 0))]

\* 3) truncate both arrays, 4) update the signal
Finish(ni, st) ==
    IF st.panicked THEN st
    ELSE [st EXCEPT !.mapped = Truncate(@, Len(ni)),
                    !.disposers = Truncate(@, Len(ni)),
                    !.cut = IF Len(st.disposers) > Len(ni)
                            THEN SubSeq(st.disposers, Len(ni) + 1, Len(st.disposers))
                            ELSE <<>>,
                    !.item_signal = Truncate(st.mapped, Len(ni)),
                    !.events = Append(@, Ev("publish", 0))]

KeysOf(v) == {key_fn(v[n]) : n \in 1..Len(v)}
UniqueKeys(v) == \A m, n \in 1..Len(v) : key_fn(v[m]) = key_fn(v[n]) => m = n

\* the state the closure leaves behind; 5) new_items is kept for the next run
Leave(ni, st, branch) ==
    /\ mapped' = st.mapped
    /\ disposers' = st.disposers
    /\ microtasks' = st.microtasks
    /\ nextScope' = st.nextScope
    /\ disposed' = st.disposed
    /\ events' = st.events
    /\ panicked' = st.panicked
    /\ item_signal' = st.item_signal
    /\ items' = IF st.panicked THEN items ELSE ni
    /\ loc' = [f \in DOMAIN NoLoc |-> st[f]]
    /\ path' = branch
    /\ pre' = Snap
    /\ map_calls' = [k \in Keys |->
                        (IF k \in KeysOf(items) /\ k \in KeysOf(ni)
                         THEN map_calls[k] ELSE 0)
                        + Cardinality({n \in 1..Len(st.calls) :
                                           key_fn(st.calls[n]) = k})]
    /\ UNCHANGED tryVars

\* RemoveAll that disposes the scopes inside the run instead of queueing
RemoveAll_Sync(ni) ==
    /\ ~panicked
    /\ path = "none"
    /\ ni = <<>>
    /\ Len(microtasks) < MaxQueue
    /\ \E st \in {Finish(ni, [DisposeAll(disposers, 0, Entry(ni)) EXCEPT
                                !.microtasks = Append(@, <<>>),
                                !.events = Append(@, Ev("queue", 0)),
                                !.disposers = <<>>,
                                !.mapped = <<>>])} :
          Leave(ni, st, "clear")

\* if new_items.is_empty(): take the disposers, queue their disposal
RemoveAll(ni) ==
    /\ ~panicked
    /\ path = "none"
    /\ ni = <<>>
    /\ Len(microtasks) < MaxQueue
    /\ \E st \in {Finish(ni, [Entry(ni) EXCEPT
                                !.microtasks = Append(@, disposers),
                                !.events = Append(@, Ev("queue", 0)),
                                !.disposers = <<>>,
                                !.mapped = <<>>])} :
          Leave(ni, st, "clear")

\* else if items.is_empty(): build every item in a fresh child scope
CreateAll(ni) ==
    /\ ~panicked
    /\ path = "none"
    /\ ni # <<>>
    /\ items = <<>>
    /\ nextScope + Len(ni) <= MaxScopes
    /\ \E st \in {Finish(ni, CreateLoop(ni, 0, Entry(ni)))} :
          Leave(ni, st, "create")

\* else: the general case
Diff(ni) ==
    /\ ~panicked
    /\ path = "none"
    /\ ni # <<>>
    /\ items # <<>>
    /\ \E st \in {Finish(ni, General(items, ni, Entry(ni)))} :
          /\ st.nextScope <= MaxScopes
          /\ Leave(ni, st, "general")

\* RunMicrotask whose closure shares the scope array with the effect instead
\* of owning the vector taken at the clear
RunMicrotask_Shared ==
    /\ ~panicked
    /\ microtasks # <<>>
    /\ LET st == DisposeAll(disposers, 0,
                            [disposed |-> disposed, panicked |-> FALSE])
       IN  /\ disposed' = st.disposed
           /\ panicked' = st.panicked
    /\ microtasks' = Tail(microtasks)
    /\ UNCHANGED <<items, mapped, disposers, item_signal, nextScope, path,
                   events, loc, pre, map_calls>>
    /\ UNCHANGED tryVars

\* the queued closure: for disposer in disposers { disposer.unwrap().dispose() }
RunMicrotask ==
    /\ ~panicked
    /\ microtasks # <<>>
    /\ LET st == DisposeAll(Head(microtasks), 0,
                            [disposed |-> disposed, panicked |-> FALSE])
       IN  /\ disposed' = st.disposed
           /\ panicked' = st.panicked
    /\ microtasks' = Tail(microtasks)
    /\ UNCHANGED <<items, mapped, disposers, item_signal, nextScope, path,
                   events, loc, pre, map_calls>>
    /\ UNCHANGED tryVars

\* the closure has returned: its locals are dropped and the record of what
\* the run did is cleared before the effect can run again
Returned ==
    /\ ~panicked
    /\ path # "none"
    /\ path' = "none"
    /\ events' = <<>>
    /\ loc' = NoLoc
    /\ pre' = NoPre
    /\ UNCHANGED <<items, mapped, disposers, item_signal, microtasks,
                   nextScope, disposed, panicked, map_calls>>
    /\ UNCHANGED tryVars

Next ==
    \/ \E ni \in Snapshots : RemoveAll(ni)
    \/ \E ni \in Snapshots : CreateAll(ni)
    \/ \E ni \in Snapshots : Diff(ni)
    \/ Returned
    \/ RunMicrotask

Spec == Init /\ [][Next]_vars

\* ---- the caller keeps the key_fn contract: every snapshot has unique keys ----
UniqueSnapshots == {v \in Snapshots : UniqueKeys(v)}

NextUnique ==
    \/ \E ni \in UniqueSnapshots : RemoveAll(ni)
    \/ \E ni \in UniqueSnapshots : CreateAll(ni)
    \/ \E ni \in UniqueSnapshots : Diff(ni)
    \/ Returned
    \/ RunMicrotask

SpecUnique == Init /\ [][NextUnique]_vars

\* ---- error boundary: the views ----
\* the inner view T: its state shows the view it was last built or rebuilt
\* from; rebuilt tells a state updated in place from a freshly built one
T_build(v) == [view |-> v, rebuilt |-> FALSE]
T_rebuild(v, state) == [state EXCEPT !.view = v, !.rebuilt = TRUE]

\* impl Render for Result<T, E>: try_build / try_rebuild
Result_try_build(self) ==
    IF self.ok THEN Ok(T_build(self.val)) ELSE Err(AnyError(self.val))
Result_try_rebuild(self, state) ==
    IF self.ok
    THEN [res |-> Ok(<<>>), state |-> T_rebuild(self.val, state)]
    ELSE [res |-> Err(AnyError(self.val)), state |-> state]

\* the fallback closure and the view it returns
fal(e) == [error |-> e]
Fal_build(f) == [view |-> f, rebuilt |-> FALSE]
Fal_rebuild(f, state) == [state EXCEPT !.view = f, !.rebuilt = TRUE]

\* ---- error boundary: the parent element's child list ----
\* nodes: "children" (the child state's nodes), "fallback", "marker" (the
\* placeholder) and "sibling" (a node inserted by insert_before_this)
Mounted(d, n) == \E i \in 1..Len(d) : d[i] = n
Remove(d, n) == SelectSeq(d, LAMBDA x : x # n)
InsertBefore(d, n, before) ==
    LET d0 == Remove(d, n)
    IN  IF Mounted(d0, before)
        THEN LET k == CHOOSE i \in 1..Len(d0) : d0[i] = before
             IN  SubSeq(d0, 1, k - 1) \o <<n>> \o SubSeq(d0, k, Len(d0))
        ELSE Append(d0, n)

\* Mountable::unmount / Mountable::mount of one node
unmount(node, st) ==
    [st EXCEPT !.parent = Remove(@, node),
               !.dom_ops = Append(@, <<"unmount", node>>)]
mount(node, before, st) ==
    [st EXCEPT !.parent = InsertBefore(@, node, before),
               !.dom_ops = Append(@, <<"mount", node>>)]
\* Rndr::mount_before(new_state, marker): mounts into the marker's parent.
\* A marker that is not mounted has no parent: the renderer either mounts
\* nothing or panics (detached says which).
mount_before(node, st, detached) ==
    IF Mounted(st.parent, "marker")
    THEN [st EXCEPT !.parent = InsertBefore(@, node, "marker"),
                    !.dom_ops = Append(@, <<"mount_before", node>>)]
    ELSE IF detached = "panic"
         THEN [st EXCEPT !.try_panic = "mount_before"]
         ELSE [st EXCEPT !.dom_ops = Append(@, <<"mount_before", node>>)]

\* the TryState and the DOM at entry of an operation
TryEntry == [inner |-> inner, parent |-> parent, try_panic |-> "none",
             dom_ops |-> <<>>, ret |-> None]

\* ---- impl Render for Try ----
\* Try::build
build(child, st) ==
    LET r == Result_try_build(child)
    IN  [st EXCEPT !.inner = IF r.ok THEN Success(Some(r.val))
                             ELSE InitialFail(Fal_build(fal(r.val)))]

\* rebuild_Success that takes the children out of the slot on a failure but
\* leaves the state Success
rebuild_Success_TakeOnly(child, st, detached) ==
    LET old == st.inner.children
    IN  IF ~IsSome(old) THEN [st EXCEPT !.try_panic = "expect"]
        ELSE LET r == Result_try_rebuild(child, Unwrap(old))
             IN  IF ~r.res.ok
                 THEN LET st1 == unmount("children",
                                         [st EXCEPT !.inner = Success(Some(r.state))])
                          st2 == mount_before("fallback", st1, detached)
                      IN  IF st2.try_panic # "none" THEN st2
                          ELSE [st2 EXCEPT !.inner = Success(None)]
                 ELSE [st EXCEPT !.inner = Success(Some(r.state))]

\* rebuild_Success that drops the children when it switches to the fallback
rebuild_Success_DropChildren(child, st, detached) ==
    LET old == st.inner.children
    IN  IF ~IsSome(old) THEN [st EXCEPT !.try_panic = "expect"]
        ELSE LET r == Result_try_rebuild(child, Unwrap(old))
             IN  IF ~r.res.ok
                 THEN LET st1 == unmount("children",
                                         [st EXCEPT !.inner = Success(Some(r.state))])
                          new_state == Fal_build(fal(r.res.val))
                          st2 == mount_before("fallback", st1, detached)
                      IN  IF st2.try_panic # "none" THEN st2
                          ELSE [st2 EXCEPT !.inner = SubsequentFail(None, new_state)]
                 ELSE [st EXCEPT !.inner = Success(Some(r.state))]

\* Try::rebuild, state Success
rebuild_Success(child, st, detached) ==
    LET old == st.inner.children
    IN  IF ~IsSome(old) THEN [st EXCEPT !.try_panic = "expect"]
        ELSE LET r == Result_try_rebuild(child, Unwrap(old))
             IN  IF ~r.res.ok
                 THEN LET st1 == unmount("children",
                                         [st EXCEPT !.inner = Success(Some(r.state))])
                          new_state == Fal_build(fal(r.res.val))
                          st2 == mount_before("fallback", st1, detached)
                      IN  IF st2.try_panic # "none" THEN st2
                          ELSE [st2 EXCEPT !.inner =
                                    SubsequentFail(Some(r.state), new_state)]
                 ELSE [st EXCEPT !.inner = Success(Some(r.state))]

\* rebuild_InitialFail that mounts the new children without unmounting the fallback
rebuild_InitialFail_NoUnmount(child, st, detached) ==
    LET old == Unwrap(st.inner.fallback)
        r == Result_try_build(child)
    IN  IF ~r.ok
        THEN [st EXCEPT !.inner = InitialFail(Fal_rebuild(fal(r.val), old))]
        ELSE LET st2 == mount_before("children", st, detached)
             IN  IF st2.try_panic # "none" THEN st2
                 ELSE [st2 EXCEPT !.inner = Success(Some(r.val))]

\* Try::rebuild, state InitialFail
rebuild_InitialFail(child, st, detached) ==
    LET old == Unwrap(st.inner.fallback)
        r == Result_try_build(child)
    IN  IF ~r.ok
        THEN [st EXCEPT !.inner = InitialFail(Fal_rebuild(fal(r.val), old))]
        ELSE LET st1 == unmount("fallback", st)
                 st2 == mount_before("children", st1, detached)
             IN  IF st2.try_panic # "none" THEN st2
                 ELSE [st2 EXCEPT !.inner = Success(Some(r.val))]

\* Try::rebuild, state SubsequentFail
rebuild_SubsequentFail(child, st, detached) ==
    LET fallback == Unwrap(st.inner.fallback)
        r == Result_try_build(child)
    IN  IF ~r.ok
        THEN [st EXCEPT !.inner = SubsequentFail(st.inner.children,
                                                 Fal_rebuild(fal(r.val), fallback))]
        ELSE LET st1 == unmount("fallback", st)
                 st2 == mount_before("children", st1, detached)
             IN  IF st2.try_panic # "none" THEN st2
                 ELSE [st2 EXCEPT !.inner = Success(Some(r.val))]

\* Try::rebuild
rebuild(child, st, detached) ==
    CASE st.inner.tag = "Success" -> rebuild_Success(child, st, detached)
      [] st.inner.tag = "InitialFail" -> rebuild_InitialFail(child, st, detached)
      [] st.inner.tag = "SubsequentFail" -> rebuild_SubsequentFail(child, st, detached)

\* ---- impl Mountable for TryState ----
\* the node of the content the state shows; None when the expect() fails
ContentOf(st) ==
    IF st.inner.tag = "Success"
    THEN IF IsSome(st.inner.children) THEN Some("children") ELSE None
    ELSE Some("fallback")

TryState_unmount(st) ==
    IF ~IsSome(ContentOf(st)) THEN [st EXCEPT !.try_panic = "expect"]
    ELSE unmount("marker", unmount(Unwrap(ContentOf(st)), st))

\* mount(parent, marker): the outer marker is None, the placeholder is appended
TryState_mount(st) ==
    LET st1 == mount("marker", "end", st)
    IN  IF ~IsSome(ContentOf(st)) THEN [st1 EXCEPT !.try_panic = "expect"]
        ELSE mount(Unwrap(ContentOf(st)), "marker", st1)

\* insert_before_this(parent, child) delegates to the content, which puts the
\* child in front of its own nodes if it is mounted and says whether it did
TryState_insert_before_this(st) ==
    IF ~IsSome(ContentOf(st)) THEN [st EXCEPT !.try_panic = "expect"]
    ELSE IF Mounted(st.parent, Unwrap(ContentOf(st)))
         THEN [st EXCEPT !.parent = InsertBefore(@, "sibling", Unwrap(ContentOf(st))),
                         !.ret = Some(TRUE)]
         ELSE [st EXCEPT !.ret = Some(FALSE)]

\* ---- error boundary: the operations as actions ----
TryLeave(op, child, st) ==
    /\ inner' = st.inner
    /\ parent' = st.parent
    /\ try_panic' = st.try_panic
    /\ last' = [op |-> op, child |-> child, from |-> inner, parent |-> parent,
                dom_ops |-> st.dom_ops, ret |-> st.ret]
    /\ UNCHANGED mapVars

Build(child) ==
    /\ try_panic = "none"
    /\ inner = Unbuilt
    /\ TryLeave("build", Some(child), build(child, TryEntry))
    /\ UNCHANGED outer

Rebuild(child) ==
    /\ try_panic = "none"
    /\ inner # Unbuilt
    /\ \E detached \in {"nothing", "panic"} :
           TryLeave("rebuild", Some(child), rebuild(child, TryEntry, detached))
    /\ UNCHANGED outer

Mount ==
    /\ try_panic = "none"
    /\ inner # Unbuilt
    /\ TryLeave("mount", None, TryState_mount(TryEntry))
    /\ UNCHANGED outer

Unmount ==
    /\ try_panic = "none"
    /\ inner # Unbuilt
    /\ TryLeave("unmount", None, TryState_unmount(TryEntry))
    /\ UNCHANGED outer

InsertBeforeThis ==
    /\ try_panic = "none"
    /\ inner # Unbuilt
    /\ TryLeave("insert_before_this", None, TryState_insert_before_this(TryEntry))
    /\ UNCHANGED outer

\* Try::try_build: Ok(self.build())
Try_try_build(child, st) ==
    LET st1 == build(child, st)
    IN  [res |-> Ok(st1.inner), st |-> st1]

\* Try::try_rebuild that hands the child's error on to its caller
Try_try_rebuild_Propagate(child, st, detached) ==
    [res |-> IF child.ok THEN Ok(<<>>) ELSE Err(AnyError(child.val)),
     st |-> rebuild(child, st, detached)]

\* Try::try_rebuild: self.rebuild(state); Ok(())
Try_try_rebuild(child, st, detached) ==
    [res |-> Ok(<<>>), st |-> rebuild(child, st, detached)]

\* an enclosing Try is built: its child is this Try, and its build matches
\* on what this Try's try_build returns
OuterBuild(child) ==
    /\ try_panic = "none"
    /\ inner = Unbuilt
    /\ outer = "Unbuilt"
    /\ \E r \in {Try_try_build(child, TryEntry)} :
           /\ outer' = IF r.res.ok THEN "Success" ELSE "InitialFail"
           /\ TryLeave("try_build", Some(child), [r.st EXCEPT !.ret = Some(r.res)])

\* the enclosing Try is rebuilt in Success: it calls this Try's try_rebuild
\* on the state it holds and switches to SubsequentFail on an Err
OuterRebuild(child) ==
    /\ try_panic = "none"
    /\ inner # Unbuilt
    /\ outer = "Success"
    /\ \E detached \in {"nothing", "panic"} :
       \E r \in {Try_try_rebuild(child, TryEntry, detached)} :
           /\ outer' = IF r.st.try_panic # "none" THEN outer
                        ELSE IF r.res.ok THEN "Success" ELSE "SubsequentFail"
           /\ TryLeave("try_rebuild", Some(child),
                       [r.st EXCEPT !.ret = IF r.st.try_panic # "none" THEN None
                                            ELSE Some(r.res)])

NextTry ==
    \/ \E child \in Results : Build(child)
    \/ \E child \in Results : Rebuild(child)
    \/ \E child \in Results : OuterBuild(child)
    \/ \E child \in Results : OuterRebuild(child)
    \/ Mount
    \/ Unmount
    \/ InsertBeforeThis

SpecTry == Init /\ [][NextTry]_vars

\* ---- vocabulary of the properties ----
Idx(v) == 0..(Len(v) - 1)
ScopesOf(ds) == {s \in ScopeIds : \E n \in 1..Len(ds) : ds[n] = Some(s)}
Queued == UNION {ScopesOf(microtasks[n]) : n \in 1..Len(microtasks)}
Holds(ds, j, s) == j \in Idx(ds) /\ At(ds, j) = Some(s)
EventsOf(op) == {n \in 1..Len(events) : events[n].op = op}
\* a run of the effect has completed and its record is still there
AfterRun == ~panicked /\ path # "none"
\* A = pre.items is the previous input, B = items the input just reconciled
UniqueRun == AfterRun /\ UniqueKeys(pre.items) /\ UniqueKeys(items)

\* C1: identity preservation. After reconciling A -> B (unique keys), a key
\* present in both keeps the very scope and mapped element it had after A,
\* wherever it sat in A and wherever it sits in B.
IdentityPreserved ==
    UniqueRun =>
        \A i \in Idx(pre.items), j \in Idx(items) :
            key_fn(At(pre.items, i)) = key_fn(At(items, j)) =>
                /\ At(disposers, j) = At(pre.disposers, i)
                /\ At(mapped, j) = At(pre.mapped, i)
                /\ IsSome(At(disposers, j))

\* C1 witness: a key of the middle range kept its scope while changing index.
IdentityWitness ==
    /\ UniqueRun
    /\ path = "general"
    /\ \E i \in Idx(pre.items), j \in Idx(items) :
        /\ i # j
        /\ i >= loc.start /\ i < loc.end
        /\ key_fn(At(pre.items, i)) = key_fn(At(items, j))
        /\ At(disposers, j) = At(pre.disposers, i)
        /\ IsSome(At(disposers, j))

\* C2: disposal completeness. After reconciling A -> B every scope whose key
\* is in A and not in B has been disposed exactly once, or (B empty) is held
\* undisposed by the queued task until that task has run.
DisposalComplete ==
    AfterRun =>
        \A i \in Idx(pre.items) :
            key_fn(At(pre.items, i)) \notin KeysOf(items) =>
                \E s \in ScopeIds :
                    /\ At(pre.disposers, i) = Some(s)
                    /\ IF path = "clear" /\ s \in Queued
                       THEN disposed[s] = 0
                       ELSE disposed[s] = 1

\* C2 witness: a general-case run dropped one key and kept another.
DisposalWitness ==
    /\ AfterRun
    /\ path = "general"
    /\ \E i \in Idx(pre.items) :
        /\ key_fn(At(pre.items, i)) \notin KeysOf(items)
        /\ \E s \in ScopeIds : At(pre.disposers, i) = Some(s) /\ disposed[s] = 1
    /\ KeysOf(pre.items) \cap KeysOf(items) # {}

\* C3: dispose is never called twice on a scope, whatever the snapshots
\* (colliding keys included) and whatever the order of runs and tasks.
NoDoubleDispose == \A s \in ScopeIds : disposed[s] <= 1

\* C3 witness: a snapshot with colliding keys was reconciled away, one scope
\* disposed by the run and another one by a deferred task.
NoDoubleDisposeWitness ==
    /\ AfterRun
    /\ path = "general"
    /\ ~UniqueKeys(pre.items)
    /\ \E s \in ScopesOf(pre.disposers) : disposed[s] = 1
    /\ \E s \in ScopeIds \ ScopesOf(pre.disposers) : disposed[s] = 1

\* scopes created and not disposed, and the scopes somebody still holds
Live == {s \in 1..nextScope : disposed[s] = 0}
Held == ScopesOf(disposers)
PreLive == {s \in 1..pre.nextScope : pre.disposed[s] = 0}
PreHeld == ScopesOf(pre.disposers)
PreQueued == UNION {ScopesOf(pre.microtasks[n]) : n \in 1..Len(pre.microtasks)}
SlotsOf(ds, s) == {n \in 1..Len(ds) : ds[n] = Some(s)}
\* every slot of the scope array holds a scope, no scope sits in two slots
OnePerElement ==
    /\ Len(disposers) = Len(items)
    /\ \A n \in 1..Len(disposers) : IsSome(disposers[n])
    /\ \A s \in Held : Cardinality(SlotsOf(disposers, s)) = 1
\* the old scope at index i went to exactly one new slot, or was disposed once
MovedXorDisposed(i) ==
    \E s \in ScopeIds :
        /\ At(pre.disposers, i) = Some(s)
        /\ \/ Cardinality(SlotsOf(disposers, s)) = 1 /\ disposed[s] = 0
           \/ SlotsOf(disposers, s) = {} /\ disposed[s] = 1 /\ pre.disposed[s] = 0

\* C4 as claimed: in every general-case run each old scope from start on is
\* moved to one slot or disposed once, and with no task pending the live
\* scopes are exactly the scopes of the scope array, one per element.
EveryScopeMovedOrDisposed ==
    /\ (AfterRun /\ path = "general") =>
           \A i \in loc.start..(Len(pre.items) - 1) : MovedXorDisposed(i)
    /\ (~panicked /\ microtasks = <<>>) => (Live = Held /\ OnePerElement)

\* C4 amended: the same for a run whose previous input has unique keys; such
\* a run loses no scope: if every scope live at its entry was held by the scope
\* array or by a pending task, that is still so after it (so it is so after
\* every run as long as no snapshot had colliding keys).
MovedOrDisposedUniqueKeys ==
    /\ (AfterRun /\ path = "general" /\ UniqueKeys(pre.items)) =>
           \A i \in loc.start..(Len(pre.items) - 1) : MovedXorDisposed(i)
    /\ (AfterRun /\ UniqueKeys(pre.items) /\ PreLive = PreHeld \cup PreQueued) =>
           /\ Live = Held \cup Queued
           /\ OnePerElement
           /\ microtasks = <<>> => Live = Held

\* C4 witness: unique keys, one old scope moved to another index and one
\* disposed, nothing pending.
MovedOrDisposedWitness ==
    /\ UniqueRun
    /\ path = "general"
    /\ PreLive = PreHeld \cup PreQueued
    /\ microtasks = <<>>
    /\ \E i \in loc.start..(Len(pre.items) - 1), s \in ScopeIds :
        At(pre.disposers, i) = Some(s) /\ disposed[s] = 1
    /\ \E i \in loc.start..(Len(pre.items) - 1), s \in ScopeIds :
        At(pre.disposers, i) = Some(s) /\ disposed[s] = 0 /\ ~Holds(disposers, i, s)

\* C5 as claimed: the published output is map_fn applied positionally to the
\* input just reconciled.
OutputIsMapOfInput ==
    AfterRun =>
        /\ Len(item_signal) = Len(items)
        /\ \A j \in Idx(items) :
            \E s \in ScopeIds : At(item_signal, j) = map_fn(s, At(items, j))

\* C5 amended: output[j] is map_fn of an element with the key of B[j]: of B[j]
\* itself when it was built in this run, else the element built in an earlier
\* run for that key and reused as it was, which may differ from B[j] in value.
OutputIsMapOfKeyedInput ==
    AfterRun =>
        /\ Len(item_signal) = Len(items)
        /\ \A j \in Idx(items) :
            \E s \in ScopeIds, it \in Items :
                /\ At(item_signal, j) = map_fn(s, it)
                /\ key_fn(it) = key_fn(At(items, j))
                /\ IF s > pre.nextScope
                   THEN it = At(items, j)
                   ELSE \E i \in Idx(pre.items) :
                            /\ At(pre.item_signal, i) = At(item_signal, j)
                            /\ key_fn(At(pre.items, i)) = key_fn(At(items, j))

\* C5 witness: a run that built one element and reused another one whose
\* value had changed under its key.
OutputWitness ==
    /\ UniqueRun
    /\ path = "general"
    /\ \E j \in Idx(items) : At(item_signal, j).scope > pre.nextScope
    /\ \E j \in Idx(items) :
        /\ At(item_signal, j).scope <= pre.nextScope
        /\ At(item_signal, j).src # At(items, j)

\* C6: after every run the mapped array, the scope array and the input have
\* one length, and the retained previous input is the input just read.
LengthInvariant ==
    /\ ~panicked => (Len(mapped) = Len(items) /\ Len(disposers) = Len(items))
    /\ AfterRun => items = loc.new_items

\* C6 witness: a general-case run to a shorter input.
LengthWitness ==
    /\ AfterRun
    /\ path = "general"
    /\ Len(items) < Len(pre.items)
    /\ Len(mapped) = Len(items)
    /\ loc.cut # <<>>

\* C7: scope-to-key association. After reconciling A -> B (unique keys) the
\* scope at j is fresh when key(B[j]) was not in A, else it is the scope that
\* key had; it is never a scope that belonged to another key of A.
ScopeKeyAssociation ==
    UniqueRun =>
        \A j \in Idx(items) :
            \E s \in ScopeIds :
                /\ At(disposers, j) = Some(s)
                /\ IF key_fn(At(items, j)) \in KeysOf(pre.items)
                   THEN \E i \in Idx(pre.items) :
                            /\ key_fn(At(pre.items, i)) = key_fn(At(items, j))
                            /\ At(pre.disposers, i) = Some(s)
                   ELSE s > pre.nextScope /\ s <= nextScope
                /\ \A i \in Idx(pre.items) :
                       key_fn(At(pre.items, i)) # key_fn(At(items, j)) =>
                           At(pre.disposers, i) # Some(s)

\* C7 witness: one general-case run put a fresh scope under a new key and
\* kept, at another index, the scope of a key it already had.
ScopeKeyWitness ==
    /\ UniqueRun
    /\ path = "general"
    /\ \E j \in Idx(items), s \in ScopeIds :
        /\ key_fn(At(items, j)) \notin KeysOf(pre.items)
        /\ At(disposers, j) = Some(s) /\ s > pre.nextScope
    /\ \E i \in Idx(pre.items), j \in Idx(items) :
        /\ i # j
        /\ key_fn(At(pre.items, i)) = key_fn(At(items, j))
        /\ At(pre.disposers, i) = At(disposers, j)

\* scopes the last run created / disposed or handed to its deferred task
CreatedByRun == {events[n].scope : n \in EventsOf("create")}
DisposedByRun == {events[n].scope : n \in EventsOf("dispose")}
RemovedByRun == DisposedByRun \cup (IF path = "clear" THEN PreHeld ELSE {})

\* C8: no superfluous creation or disposal. A -> B over unique keys creates
\* one scope per key of B not in A and disposes (or, B empty, hands to the
\* deferred task) one scope per key of A not in B, each once.
NoSuperfluousWork ==
    UniqueRun =>
        /\ Cardinality(EventsOf("create")) = Cardinality(KeysOf(items) \ KeysOf(pre.items))
        /\ Cardinality(CreatedByRun) = Cardinality(EventsOf("create"))
        /\ nextScope - pre.nextScope = Cardinality(EventsOf("create"))
        /\ Cardinality(RemovedByRun) = Cardinality(KeysOf(pre.items) \ KeysOf(items))
        /\ Cardinality(DisposedByRun) = Cardinality(EventsOf("dispose"))
        /\ path = "clear" => EventsOf("dispose") = {}
        /\ (KeysOf(items) = KeysOf(pre.items)) =>
               (EventsOf("create") = {} /\ EventsOf("dispose") = {}
                /\ (items # <<>> => ScopesOf(disposers) = PreHeld))

\* C8 witness: a permutation of three keys, nothing created, nothing disposed.
NoSuperfluousWitness ==
    /\ UniqueRun
    /\ path = "general"
    /\ Len(items) = 3
    /\ KeysOf(items) = KeysOf(pre.items)
    /\ \A j \in Idx(items) : key_fn(At(items, j)) # key_fn(At(pre.items, j))
    /\ events = <<Ev("publish", 0)>>

\* the pending queue is what is left of the queue q
IsRestOf(q) ==
    /\ Len(microtasks) <= Len(q)
    /\ microtasks = SubSeq(q, Len(q) - Len(microtasks) + 1, Len(q))

\* C9: full clear is deferred. A run on an empty input disposes nothing: it
\* queues one task holding all previous scopes and publishes the empty
\* output; the scopes are undisposed until that task runs and disposed once
\* when it has run.
FullClearDeferred ==
    (AfterRun /\ path = "clear") =>
        /\ events = <<Ev("queue", 0), Ev("publish", 0)>>
        /\ item_signal = <<>>
        /\ disposers = <<>>
        /\ \A s \in PreHeld : pre.disposed[s] = 0
        /\ IsRestOf(Append(pre.microtasks, pre.disposers))
        /\ \A s \in PreHeld :
               IF microtasks # <<>>
               THEN disposed[s] = 0 /\ s \in ScopesOf(microtasks[Len(microtasks)])
               ELSE disposed[s] = 1

\* C9 witness: three scopes cleared, the output already empty, the task not
\* yet run.
FullClearWitness ==
    /\ AfterRun
    /\ path = "clear"
    /\ Cardinality(PreHeld) = 3
    /\ item_signal = <<>>
    /\ microtasks # <<>>
    /\ \A s \in PreHeld : disposed[s] = 0

\* C10: per-key removal is synchronous. In a general-case run every scope
\* whose key is not in the new input is disposed by the run itself, before the
\* run creates any scope and before it publishes, and the run queues no task.
RemovalSynchronous ==
    (AfterRun /\ path = "general") =>
        /\ \A i \in Idx(pre.items) :
               key_fn(At(pre.items, i)) \notin KeysOf(items) =>
                   \E n \in EventsOf("dispose") : At(pre.disposers, i) = Some(events[n].scope)
        /\ \A m \in EventsOf("dispose"), n \in EventsOf("create") : m < n
        /\ \A m \in EventsOf("dispose") \cup EventsOf("create") : m < Len(events)
        /\ EventsOf("publish") = {Len(events)}
        /\ EventsOf("queue") = {}
        /\ IsRestOf(pre.microtasks)

\* C10 witness: a general-case run that disposed one scope and created one.
RemovalWitness ==
    /\ AfterRun
    /\ path = "general"
    /\ EventsOf("dispose") # {}
    /\ EventsOf("create") # {}

\* C11: atomic publication. A run writes the output signal once, as its last
\* step and after the truncation, so the signal always holds the complete
\* result of the last completed run: before the write that of the previous
\* run, after it that of this run.
AtomicPublication ==
    /\ ~panicked => item_signal = mapped
    /\ AfterRun =>
           /\ EventsOf("publish") = {Len(events)}
           /\ Len(item_signal) = Len(loc.new_items)
           /\ pre.item_signal = pre.mapped
           /\ Len(pre.item_signal) = Len(pre.items)

\* C11 witness: a general-case run to a shorter input replaced the output of
\* the previous run by its own, published once at its end.
AtomicPublicationWitness ==
    /\ AfterRun
    /\ path = "general"
    /\ Len(items) < Len(pre.items)
    /\ item_signal # pre.item_signal
    /\ Len(item_signal) = Len(items)
    /\ events[Len(events)] = Ev("publish", 0)
    /\ Len(events) > 1

\* old indices whose slot the truncation of the last run removed
CutIdx == Len(items)..(Len(items) + Len(loc.cut) - 1)
\* the scope the old slot i held is in a surviving slot or has been disposed
MovedOrGone(i) ==
    \E s \in ScopeIds :
        /\ At(pre.disposers, i) = Some(s)
        /\ \/ s \in Held /\ disposed[s] = 0
           \/ s \notin Held /\ disposed[s] = 1

\* C12 as claimed: for B shorter than A the output has the length of B and
\* every slot the truncation removes is empty, its scope having been moved to
\* a surviving slot or disposed.
TruncationDropsNothing ==
    (AfterRun /\ Len(items) < Len(pre.items)) =>
        /\ Len(item_signal) = Len(items)
        /\ Len(disposers) = Len(items)
        /\ \A n \in 1..Len(loc.cut) : loc.cut[n] = None
        /\ \A i \in CutIdx : MovedOrGone(i)

\* C12 amended: the removed slots are empty whatever the keys; that their
\* scopes were moved to a surviving slot or disposed holds when the previous
\* input has unique keys.
TruncationCutsEmptySlots ==
    (AfterRun /\ Len(items) < Len(pre.items)) =>
        /\ Len(item_signal) = Len(items)
        /\ Len(disposers) = Len(items)
        /\ \A n \in 1..Len(loc.cut) : loc.cut[n] = None
        /\ path = "general" => Len(loc.cut) = Len(pre.items) - Len(items)
        /\ UniqueKeys(pre.items) => \A i \in CutIdx : MovedOrGone(i)

\* C12 witness: the truncation removed two slots; the scope of one had been
\* moved to a surviving slot, the scope of the other disposed.
TruncationWitness ==
    /\ AfterRun
    /\ path = "general"
    /\ UniqueKeys(pre.items)
    /\ Len(loc.cut) = 2
    /\ \E i \in CutIdx, s \in Held : At(pre.disposers, i) = Some(s)
    /\ \E i \in CutIdx, s \in ScopeIds \ Held :
        At(pre.disposers, i) = Some(s) /\ disposed[s] = 1

\* every slot of a scope vector is occupied
AllSome(ds) == \A n \in 1..Len(ds) : \E s \in ScopeIds : ds[n] = Some(s)
CollidingKeys(v) == ~UniqueKeys(v)

\* C13: key collisions never crash. For any sequence of snapshots, colliding
\* keys included, no unwrap and no index has failed, every slot of the
\* retained scope array and of every queued task is occupied after each run
\* (so the next unwrap on it succeeds), the arrays are as long as the input,
\* and the indices the general case used lie inside the arrays they index.
CollisionsNeverCrash ==
    /\ ~panicked
    /\ AllSome(disposers)
    /\ \A n \in 1..Len(microtasks) : AllSome(microtasks[n])
    /\ Len(disposers) = Len(items)
    /\ Len(mapped) = Len(items)
    /\ (AfterRun /\ path = "general") =>
           /\ 0 <= loc.start /\ loc.start <= loc.end /\ loc.start <= loc.new_end
           /\ loc.end <= Len(pre.disposers)
           /\ loc.new_end <= Len(items)
           /\ Len(loc.temp) = Len(items)
           /\ Len(loc.temp_disposers) = Len(items)
           /\ Len(loc.new_indices_next) = loc.new_end - loc.start
           /\ \A n \in 1..Len(loc.moves) :
                  /\ loc.moves[n][1] \in loc.start..(loc.end - 1)
                  /\ loc.moves[n][2] \in loc.start..(loc.new_end - 1)
           /\ \A k \in Keys : \A j \in 0..MaxLen :
                  loc.new_indices[k] = Some(j) => j \in loc.start..(loc.new_end - 1)

\* C13 witness: a general-case run between two snapshots that both repeat a
\* key has moved a scope and disposed another, and left every slot occupied.
CollisionsWitness ==
    /\ AfterRun
    /\ path = "general"
    /\ CollidingKeys(pre.items)
    /\ CollidingKeys(items)
    /\ loc.moves # <<>>
    /\ EventsOf("dispose") # {}
    /\ AllSome(disposers)

\* indices of key k in v within [lo, hi), and the rank of an index in a set
Occ(v, k, lo, hi) == {i \in lo..(hi - 1) : key_fn(At(v, i)) = k}
Rank(S, x) == Cardinality({y \in S : y < x}) + 1
Lowest(S) == CHOOSE x \in S : \A y \in S : x <= y
\* old and new occurrences of k in the middle ranges of the last run
OldOcc(k) == Occ(pre.items, k, loc.start, loc.end)
NewOcc(k) == Occ(items, k, loc.start, loc.new_end)
MovedTo(i, j) == \E n \in 1..Len(loc.moves) : loc.moves[n] = <<i, j>>

\* C14: repeated keys are matched in order. In a general-case run the key
\* index over the new middle range starts each key at its lowest index there
\* and chains every index to the next higher one of the same key; the match
\* pass moves the n-th old occurrence of a key to its n-th new occurrence as
\* long as new occurrences remain, and scope and mapped element of that old
\* occurrence are what the new slot then holds.
RepeatedKeysInOrder ==
    (AfterRun /\ path = "general") =>
        \A k \in Keys :
            /\ \A j \in NewOcc(k) :
                   At(loc.new_indices_next, j - loc.start) =
                       IF \E h \in NewOcc(k) : h > j
                       THEN Some(Lowest({h \in NewOcc(k) : h > j}))
                       ELSE None
            /\ OldOcc(k) = {} =>
                   loc.new_indices[k] =
                       IF NewOcc(k) = {} THEN None ELSE Some(Lowest(NewOcc(k)))
            /\ \A i \in OldOcc(k), j \in NewOcc(k) :
                   Rank(OldOcc(k), i) = Rank(NewOcc(k), j) =>
                       /\ MovedTo(i, j)
                       /\ \A h \in NewOcc(k) : MovedTo(i, h) => h = j
                       /\ (Cardinality(OldOcc(k)) <= Cardinality(NewOcc(k))) =>
                              /\ At(mapped, j) = At(pre.mapped, i)
                              /\ At(disposers, j) = At(pre.disposers, i)
                              /\ At(loc.temp, j) = Some(At(pre.mapped, i))

\* C14 witness: a key occurs twice in the old and twice in the new middle
\* range, and its second old occurrence went to its second new occurrence.
RepeatedKeysWitness ==
    /\ AfterRun
    /\ path = "general"
    /\ \E k \in Keys :
        /\ Cardinality(OldOcc(k)) = 2
        /\ Cardinality(NewOcc(k)) = 2
        /\ \E i \in OldOcc(k), j \in NewOcc(k) :
            /\ Rank(OldOcc(k), i) = 2 /\ Rank(NewOcc(k), j) = 2
            /\ MovedTo(i, j)
            /\ At(pre.items, i) # At(items, j)
            /\ \E s \in ScopeIds : At(disposers, j) = Some(s) /\ At(pre.disposers, i) = Some(s)

\* the elements of key k that the last run passed to map_fn
CallsFor(k) == {n \in 1..Len(loc.calls) : key_fn(loc.calls[n]) = k}

\* C15: map_fn runs once per key lifetime. Over any sequence of unique-key
\* snapshots, map_fn has been invoked exactly once for each key since that
\* key last entered the input and never for a key that is not in the input;
\* a run invokes it once, on the new element, for each key that enters, and
\* not at all for a key that persists, whatever its value and index.
MapFnOncePerLifetime ==
    /\ \A k \in Keys : map_calls[k] = IF k \in KeysOf(items) THEN 1 ELSE 0
    /\ AfterRun =>
           \A k \in Keys :
               /\ k \in KeysOf(pre.items) => CallsFor(k) = {}
               /\ k \notin KeysOf(items) => CallsFor(k) = {}
               /\ (k \in KeysOf(items) /\ k \notin KeysOf(pre.items)) =>
                      /\ Cardinality(CallsFor(k)) = 1
                      /\ \E j \in Idx(items), n \in CallsFor(k) :
                             /\ loc.calls[n] = At(items, j)
                             /\ At(mapped, j).src = At(items, j)
                             /\ At(mapped, j).scope > pre.nextScope
    /\ AfterRun => Len(loc.calls) = Cardinality(EventsOf("create"))

\* C15 witness: a key persisted through a run in which its element changed
\* both value and index while another key entered; map_fn ran for the
\* entering key only.
MapFnOnceWitness ==
    /\ AfterRun
    /\ path = "general"
    /\ \E i \in Idx(pre.items), j \in Idx(items) :
        /\ i # j
        /\ key_fn(At(pre.items, i)) = key_fn(At(items, j))
        /\ At(pre.items, i) # At(items, j)
        /\ CallsFor(key_fn(At(items, j))) = {}
        /\ map_calls[key_fn(At(items, j))] = 1
        /\ At(mapped, j).scope <= pre.nextScope
    /\ Len(loc.calls) = 1

\* first index at which the previous and the new input differ by value, or
\* the shorter length if there is none
DifferAt == {i \in 0..(Min(Len(pre.items), Len(items)) - 1) :
                 At(pre.items, i) # At(items, i)}
FirstDiff == IF DifferAt = {} THEN Min(Len(pre.items), Len(items))
             ELSE Lowest(DifferAt)

\* C16: the prefix is left untouched. In a general-case run start is the
\* first index where the inputs differ by value, and below start the mapped
\* elements and scopes are those the run found there: not moved, not staged,
\* not replaced, not recreated, not disposed.
PrefixUntouched ==
    (AfterRun /\ path = "general") =>
        /\ loc.start = FirstDiff
        /\ \A i \in 0..(loc.start - 1) :
            /\ At(items, i) = At(pre.items, i)
            /\ At(mapped, i) = At(pre.mapped, i)
            /\ At(disposers, i) = At(pre.disposers, i)
            /\ At(item_signal, i) = At(pre.item_signal, i)
            /\ At(loc.temp, i) = None
            /\ At(loc.temp_disposers, i) = None
            /\ \A n \in 1..Len(loc.moves) :
                   loc.moves[n][1] # i /\ loc.moves[n][2] # i
            /\ \E s \in ScopeIds :
                   /\ At(disposers, i) = Some(s)
                   /\ s <= pre.nextScope
                   /\ disposed[s] = pre.disposed[s]
                   /\ s \notin DisposedByRun

\* C16 witness: a run with a prefix of one element behind which an element
\* was replaced: a scope was disposed and one created, the prefix kept its own.
PrefixWitness ==
    /\ AfterRun
    /\ path = "general"
    /\ loc.start = 1
    /\ Len(items) = 2
    /\ DisposedByRun # {}
    /\ CreatedByRun # {}
    /\ At(mapped, 0) = At(pre.mapped, 0)
    /\ \E s \in ScopeIds : At(disposers, 0) = Some(s) /\ At(pre.disposers, 0) = Some(s)

\* the scopes of the n-th pending task
TaskScopes(n) == ScopesOf(microtasks[n])

\* between passes and tasks: a pending task holds only undisposed scopes that
\* the effect no longer holds, each once, and no two tasks share a scope
PendingTasksIsolated ==
    /\ \A n \in 1..Len(microtasks) :
        /\ \A s \in TaskScopes(n) :
            /\ disposed[s] = 0
            /\ s \notin Held
            /\ Cardinality(SlotsOf(microtasks[n], s)) = 1
        /\ \A m \in 1..Len(microtasks) : m # n => TaskScopes(m) \cap TaskScopes(n) = {}
    /\ AfterRun =>
        /\ CreatedByRun \cap Queued = {}
        /\ DisposedByRun \cap PreQueued = {}
        /\ PreQueued \cap Held = {}
        /\ IsRestOf(IF path = "clear"
                    THEN Append(pre.microtasks, pre.disposers)
                    ELSE pre.microtasks)

\* a step that shortens the queue runs its first task: it disposes the scopes
\* of that task, each once, and nothing else, and touches nothing of the effect
TaskDisposesItsOwn ==
    Len(microtasks') < Len(microtasks) =>
        /\ microtasks' = Tail(microtasks)
        /\ \A s \in ScopeIds :
               disposed'[s] = IF s \in ScopesOf(Head(microtasks))
                              THEN 1 ELSE disposed[s]
        /\ UNCHANGED <<items, mapped, disposers, item_signal, nextScope>>
        /\ ~panicked'

\* a pass never takes a task off the queue nor changes a pending one
PassKeepsQueue ==
    Len(microtasks') >= Len(microtasks) =>
        SubSeq(microtasks', 1, Len(microtasks)) = microtasks

\* C17: a deferred clear is isolated from later passes. Whatever passes and
\* tasks interleave, several clears in a row included, a pending task keeps
\* exactly the scopes it was handed, later passes neither dispose nor reuse
\* them nor add to them, and the task when it runs disposes exactly those.
DeferredClearIsolated ==
    /\ []PendingTasksIsolated
    /\ [][TaskDisposesItsOwn /\ PassKeepsQueue]_vars

\* C17 witness: two clears are pending while a general-case pass has run on
\* a later list; both tasks hold a scope and the new list holds another.
DeferredClearWitness ==
    /\ AfterRun
    /\ path = "general"
    /\ Len(microtasks) = 2
    /\ TaskScopes(1) # {}
    /\ TaskScopes(2) # {}
    /\ Held # {}
    /\ \A s \in Held : disposed[s] = 0

\* C18: error-boundary children slot. After Try::build and any sequence of
\* rebuild, mount, unmount and insert_before_this, a TryState in the Success
\* state has its children slot occupied, and no expect() on that slot has
\* failed; the fail states hold a fallback.
ChildrenSlotOccupied ==
    /\ try_panic # "expect"
    /\ inner.tag = "Success" => IsSome(inner.children) /\ inner.fallback = None
    /\ inner.tag \in {"InitialFail", "SubsequentFail"} => IsSome(inner.fallback)

\* C18 witness: Success regained by a rebuild from SubsequentFail on a
\* mounted boundary in front of which a sibling had been inserted.
ChildrenSlotWitness ==
    /\ try_panic = "none"
    /\ last.op = "rebuild"
    /\ last.from.tag = "SubsequentFail"
    /\ IsSome(last.from.children)
    /\ inner.tag = "Success"
    /\ IsSome(inner.children)
    /\ Mounted(parent, "sibling")
    /\ Mounted(parent, "children")

\* the last operation was a completed Try::build / Try::rebuild on child c
Built(c) == last.op = "build" /\ last.child = Some(c)
Rebuilt(c) == last.op = "rebuild" /\ last.child = Some(c) /\ try_panic = "none"
FallbackFor(c) == fal(AnyError(c.val))

\* C19: error-boundary state transitions. build gives Success if the child's
\* try_build succeeds, else InitialFail. After a rebuild the state is Success
\* exactly when the child's attempt succeeded: try_rebuild of the old child
\* state from Success, try_build of a new one from the fail states. On a
\* failure Success becomes SubsequentFail and keeps the old child state,
\* unmounted; InitialFail stays InitialFail; SubsequentFail stays
\* SubsequentFail with the children it retained; the fallback state of a
\* fail state is rebuilt in place.
TryTransitions ==
    \A c \in Results :
        /\ Built(c) =>
               inner = IF c.ok THEN Success(Some(T_build(c.val)))
                       ELSE InitialFail(Fal_build(FallbackFor(c)))
        /\ Rebuilt(c) =>
               /\ inner.tag = "Success" <=> c.ok
               /\ (c.ok /\ last.from.tag = "Success") =>
                      inner = Success(Some(T_rebuild(c.val, Unwrap(last.from.children))))
               /\ (c.ok /\ last.from.tag # "Success") =>
                      inner = Success(Some(T_build(c.val)))
               /\ (~c.ok /\ last.from.tag = "Success") =>
                      /\ inner = SubsequentFail(last.from.children,
                                                Fal_build(FallbackFor(c)))
                      /\ IsSome(inner.children)
                      /\ ~Mounted(parent, "children")
               /\ (~c.ok /\ last.from.tag = "InitialFail") =>
                      inner = InitialFail(Fal_rebuild(FallbackFor(c),
                                                      Unwrap(last.from.fallback)))
               /\ (~c.ok /\ last.from.tag = "SubsequentFail") =>
                      inner = SubsequentFail(last.from.children,
                                             Fal_rebuild(FallbackFor(c),
                                                         Unwrap(last.from.fallback)))

\* C19 witness: a mounted boundary in Success failed in a rebuild: it is in
\* SubsequentFail, shows the fallback and still holds the old child state.
TryTransitionsWitness ==
    /\ \E c \in Results : Rebuilt(c) /\ ~c.ok
    /\ last.from.tag = "Success"
    /\ Mounted(last.parent, "children")
    /\ inner.tag = "SubsequentFail"
    /\ inner.children = last.from.children
    /\ IsSome(inner.children)
    /\ Mounted(parent, "fallback")

\* the content node that matches a state: children in Success, else fallback
Showing(st) == IF st.tag = "Success" THEN "children" ELSE "fallback"
Hidden(st) == IF st.tag = "Success" THEN "fallback" ELSE "children"
RightBefore(d, n, m) == \E i \in 1..(Len(d) - 1) : d[i] = n /\ d[i + 1] = m

\* C20: error-boundary mount exclusivity. While the TryState is mounted (its
\* marker is in the parent) exactly one of children and fallback is mounted,
\* the one matching the state, right before the marker. A rebuild of a
\* mounted TryState that switches between Success and a fail state unmounts
\* the outgoing content and then mounts the incoming one before the marker;
\* a rebuild that keeps the kind of state mounts and unmounts nothing.
MountExclusive ==
    /\ (inner # Unbuilt /\ Mounted(parent, "marker")) =>
           /\ Mounted(parent, Showing(inner))
           /\ ~Mounted(parent, Hidden(inner))
           /\ RightBefore(parent, Showing(inner), "marker")
    /\ (last.op = "rebuild" /\ try_panic = "none" /\ Mounted(last.parent, "marker")) =>
           IF inner.tag # last.from.tag
           THEN /\ last.dom_ops = << <<"unmount", Showing(last.from)>>,
                                     <<"mount_before", Showing(inner)>> >>
                /\ Showing(inner) # Showing(last.from)
           ELSE /\ last.dom_ops = <<>>
                /\ parent = last.parent

\* C20 witness: a mounted boundary with a sibling in front switched from the
\* fallback back to the children in a rebuild.
MountExclusiveWitness ==
    /\ last.op = "rebuild"
    /\ try_panic = "none"
    /\ last.from.tag = "SubsequentFail"
    /\ inner.tag = "Success"
    /\ last.parent = <<"sibling", "fallback", "marker">>
    /\ parent = <<"sibling", "children", "marker">>
    /\ last.dom_ops = << <<"unmount", "fallback">>, <<"mount_before", "children">> >>

\* the states of the inner view T
TStates == {[view |-> v, rebuilt |-> b] : v \in Views, b \in BOOLEAN}
\* the last operation was a completed build / rebuild of this Try on child c,
\* called directly or through try_build / try_rebuild
BuiltOn(c) == last.op \in {"build", "try_build"} /\ last.child = Some(c)
RebuiltOn(c) ==
    /\ last.op \in {"rebuild", "try_rebuild"}
    /\ last.child = Some(c)
    /\ try_panic = "none"
ThroughTry == last.op \in {"try_build", "try_rebuild"} /\ try_panic = "none"

\* C21: errors stop at the boundary and leave state unchanged. try_build and
\* try_rebuild of an Err value return the error, build no child state and
\* leave the state they were given as it was, so a Try that fails holds no
\* new child state and keeps the old one unmodified; try_build and
\* try_rebuild of a Try return Ok whatever its child is, and a boundary
\* enclosing the Try is never in a fail state.
ErrorsStopAtBoundary ==
    /\ \A e \in Errors :
        /\ Result_try_build(Err(e)) = Err(AnyError(e))
        /\ ~Result_try_build(Err(e)).ok
        /\ \A state \in TStates :
               Result_try_rebuild(Err(e), state) =
                   [res |-> Err(AnyError(e)), state |-> state]
    /\ \A c \in Results :
        /\ (BuiltOn(c) /\ ~c.ok) =>
               /\ inner.children = None
               /\ Unwrap(inner.fallback).view = fal(AnyError(c.val))
        /\ (RebuiltOn(c) /\ ~c.ok) =>
               /\ inner.children = last.from.children
               /\ Unwrap(inner.fallback).view = fal(AnyError(c.val))
    /\ ThroughTry =>
           /\ IsSome(last.ret)
           /\ Unwrap(last.ret).ok
           /\ last.op = "try_build" => Unwrap(last.ret).val = inner
           /\ \A c \in Results : last.child = Some(c) =>
                  (inner.tag = "Success" <=> c.ok)
    /\ outer \in {"Unbuilt", "Success"}
    /\ outer = "Success" => inner # Unbuilt

\* C21 witness: the enclosing boundary rebuilt this Try on a failing child:
\* this Try switched to the fallback and kept the old child state, its
\* try_rebuild returned Ok and the enclosing boundary is still in Success.
ErrorsStopWitness ==
    /\ ThroughTry
    /\ last.op = "try_rebuild"
    /\ \E e \in Errors : last.child = Some(Err(e))
    /\ last.from.tag = "Success"
    /\ inner.tag = "SubsequentFail"
    /\ inner.children = last.from.children
    /\ IsSome(inner.children)
    /\ IsSome(last.ret)
    /\ Unwrap(last.ret).ok
    /\ outer = "Success"

====
